---- MODULE Spec2Model ----
(***************************************************************************)
(* Model of interactivedash.py, a Streamlit sales dashboard.  The script   *)
(* is re-executed top to bottom on every UI interaction; one action of the *)
(* model is one interaction followed by the whole script run.              *)
(*                                                                         *)
(* Text (CSV files, cell values, search terms, formatted metrics) is a     *)
(* sequence of one-character strings.  A Timestamp at midnight is the      *)
(* integer year*10000 + month*100 + day, which orders as dates do.         *)
(***************************************************************************)
EXTENDS Integers, Sequences, FiniteSets, TLC

(***************************************************************************)
(* Bounds of the model.                                                    *)
(***************************************************************************)
\* rows of the generated many-products sales file
NumRows == 12
\* distinct products of the generated many-products sales file
NumProducts == 11
\* longest search term typed into the search box
MaxTermLen == 1
\* seeds of the random generator are 0..MaxSeed
MaxSeed == 1

\* the mean of no values
NaN == [nan |-> TRUE]

(***************************************************************************)
(* Characters.                                                             *)
(***************************************************************************)
\* code points of the characters that occur (all ASCII: one UTF-8 byte each)
Ord ==
  "\n" :> 10 @@ " " :> 32 @@ "\"" :> 34 @@ "$" :> 36 @@ "," :> 44 @@
  "-" :> 45 @@ "." :> 46 @@ "0" :> 48 @@ "1" :> 49 @@ "2" :> 50 @@
  "3" :> 51 @@ "4" :> 52 @@ "5" :> 53 @@ "6" :> 54 @@ "7" :> 55 @@
  "8" :> 56 @@ "9" :> 57 @@ "A" :> 65 @@ "B" :> 66 @@ "C" :> 67 @@
  "D" :> 68 @@ "E" :> 69 @@ "F" :> 70 @@ "G" :> 71 @@ "H" :> 72 @@
  "I" :> 73 @@ "J" :> 74 @@ "K" :> 75 @@ "L" :> 76 @@ "M" :> 77 @@
  "N" :> 78 @@ "O" :> 79 @@ "P" :> 80 @@ "Q" :> 81 @@ "R" :> 82 @@
  "S" :> 83 @@ "T" :> 84 @@ "U" :> 85 @@ "V" :> 86 @@ "W" :> 87 @@
  "X" :> 88 @@ "Y" :> 89 @@ "Z" :> 90 @@ "a" :> 97 @@ "b" :> 98 @@
  "c" :> 99 @@ "d" :> 100 @@ "e" :> 101 @@ "f" :> 102 @@ "g" :> 103 @@
  "h" :> 104 @@ "i" :> 105 @@ "j" :> 106 @@ "k" :> 107 @@ "l" :> 108 @@
  "m" :> 109 @@ "n" :> 110 @@ "o" :> 111 @@ "p" :> 112 @@ "q" :> 113 @@
  "r" :> 114 @@ "s" :> 115 @@ "t" :> 116 @@ "u" :> 117 @@ "v" :> 118 @@
  "w" :> 119 @@ "x" :> 120 @@ "y" :> 121 @@ "z" :> 122

\* the character of a code point
Chr == [n \in {Ord[c] : c \in DOMAIN Ord} |-> CHOOSE c \in DOMAIN Ord : Ord[c] = n]

Digits == <<"0", "1", "2", "3", "4", "5", "6", "7", "8", "9">>

DigitVal(c) == Ord[c] - Ord["0"]

\* str.lower() of one character
Lower(c) == IF Ord[c] >= Ord["A"] /\ Ord[c] <= Ord["Z"] THEN Chr[Ord[c] + (Ord["a"] - Ord["A"])] ELSE c

\* s < t in Python's string order (by code point, a prefix first)
StrLess(s, t) ==
  \E k \in 1..(Len(t)) :
    /\ \A j \in 1..(k - 1) : j <= Len(s) /\ s[j] = t[j]
    /\ \/ k = Len(s) + 1
       \/ k <= Len(s) /\ Ord[s[k]] < Ord[t[k]]

\* the sequences over S of length at most n
SeqsUpTo(S, n) == UNION {[1..k -> S] : k \in 0..n}

\* the elements of s joined with sep between them
RECURSIVE Join(_, _)
Join(s, sep) ==
  IF s = <<>> THEN <<>>
  ELSE IF Len(s) = 1 THEN s[1]
  ELSE s[1] \o sep \o Join(Tail(s), sep)

\* the concatenation of the elements of s
RECURSIVE Concat(_)
Concat(s) == IF s = <<>> THEN <<>> ELSE s[1] \o Concat(Tail(s))

(***************************************************************************)
(* Numbers and dates as text.                                              *)
(***************************************************************************)
\* str(n) for an integer n >= 0
RECURSIVE FormatInt(_)
FormatInt(n) == IF n < 10 THEN <<Digits[n + 1]>> ELSE Append(FormatInt(n \div 10), Digits[(n % 10) + 1])

\* int(s) for a text of digits
RECURSIVE ParseInt(_)
ParseInt(s) ==
  IF Len(s) = 1 THEN DigitVal(s[1])
  ELSE 10 * ParseInt(SubSeq(s, 1, Len(s) - 1)) + DigitVal(s[Len(s)])

\* n as text, left-padded with zeros to w characters
ZeroPad(n, w) == LET d == FormatInt(n) IN [i \in 1..(w - Len(d)) |-> "0"] \o d

\* pd.to_datetime of a "YYYY-MM-DD" text
to_datetime(s) ==
  ParseInt(SubSeq(s, 1, 4)) * 10000 + ParseInt(SubSeq(s, 6, 7)) * 100 + ParseInt(SubSeq(s, 9, 10))

\* a Timestamp at midnight written by to_csv: "YYYY-MM-DD"
FormatDate(d) ==
  ZeroPad(d \div 10000, 4) \o <<"-">> \o ZeroPad((d \div 100) % 100, 2) \o <<"-">> \o ZeroPad(d % 100, 2)

\* Series.dt.to_period("M"): the month of a Timestamp, year*100 + month
to_period_M(d) == d \div 100

\* str of a monthly Period: "YYYY-MM"
FormatPeriod(p) == ZeroPad(p \div 100, 4) \o <<"-">> \o ZeroPad(p % 100, 2)

(***************************************************************************)
(* CSV text.                                                               *)
(***************************************************************************)
\* the columns of sales_dashboard_dataset.csv
FileColumns == <<"Date", "Region", "Category", "Customer", "Product", "Quantity", "TotalSales">>

\* the columns of the loaded table: those of the file and the synthesized one
Columns == Append(FileColumns, "Country")

NumericColumns == {"Quantity", "TotalSales"}

\* the header text of each column
ColumnText ==
  [c \in {Columns[i] : i \in DOMAIN Columns} |->
     CASE c = "Date" -> <<"D", "a", "t", "e">>
       [] c = "Region" -> <<"R", "e", "g", "i", "o", "n">>
       [] c = "Category" -> <<"C", "a", "t", "e", "g", "o", "r", "y">>
       [] c = "Customer" -> <<"C", "u", "s", "t", "o", "m", "e", "r">>
       [] c = "Product" -> <<"P", "r", "o", "d", "u", "c", "t">>
       [] c = "Quantity" -> <<"Q", "u", "a", "n", "t", "i", "t", "y">>
       [] c = "TotalSales" -> <<"T", "o", "t", "a", "l", "S", "a", "l", "e", "s">>
       [] c = "Country" -> <<"C", "o", "u", "n", "t", "r", "y">>]

\* the members of a set of integers in ascending order
Ascending(S) == [k \in 1..Cardinality(S) |-> CHOOSE i \in S : Cardinality({j \in S : j < i}) = k - 1]

\* the pieces of text[lo..hi] between the separators sep that stand outside
\* quotes, each as <<first, last>>; lo is the start of a line, and a position
\* is inside quotes when an odd number of '"' stand between lo and it (quotes
\* open a field, close it, or are doubled)
Split(text, lo, hi, sep) ==
  LET quotes == {j \in lo..hi : text[j] = "\""}
      Quoted(i) == Cardinality({j \in quotes : j < i}) % 2 = 1
      cuts == Ascending({i \in lo..hi : text[i] = sep /\ ~Quoted(i)})
  IN [k \in 1..(Len(cuts) + 1) |->
       <<IF k = 1 THEN lo ELSE cuts[k - 1] + 1, IF k > Len(cuts) THEN hi ELSE cuts[k] - 1>>]

\* the value of a field: a quoted field loses its enclosing quotes and every
\* doubled quote inside becomes one quote
Unquote(s) ==
  IF s # <<>> /\ s[1] = "\""
  THEN LET inner == SubSeq(s, 2, Len(s) - 1)
           keep == {k \in DOMAIN inner :
                      inner[k] = "\"" => Cardinality({j \in 1..(k - 1) : inner[j] = "\""}) % 2 = 0}
           at == Ascending(keep)
       IN [k \in DOMAIN at |-> inner[at[k]]]
  ELSE s

\* the csv reader's tokenizer: text to rows of fields; lines end with a line
\* break (the last one may lack it), blank lines are skipped
Tokenize(text) ==
  LET all == Split(text, 1, Len(text), "\n")
      lines == SelectSeq(all, LAMBDA l : l[1] <= l[2])
  IN [n \in DOMAIN lines |->
       LET fields == Split(text, lines[n][1], lines[n][2], ",")
       IN [k \in DOMAIN fields |-> Unquote(SubSeq(text, fields[k][1], fields[k][2]))]]

\* pd.read_csv: the first row names the columns; a column of NumericColumns
\* is parsed to integers, every other column stays text
read_csv(text) ==
  LET rows == Tokenize(text)
      header == rows[1]
      names == {c \in DOMAIN ColumnText : \E k \in DOMAIN header : header[k] = ColumnText[c]}
      At(c) == CHOOSE k \in DOMAIN header : header[k] = ColumnText[c]
  IN [i \in 1..(Len(rows) - 1) |->
       [c \in names |->
          IF c \in NumericColumns THEN ParseInt(rows[i + 1][At(c)]) ELSE rows[i + 1][At(c)]]]

\* csv.QUOTE_MINIMAL: a field holding the separator, the quote character or a
\* line break is wrapped in quotes, with its quotes doubled
QuoteField(s) ==
  IF \E k \in DOMAIN s : s[k] \in {",", "\"", "\n"}
  THEN <<"\"">> \o Concat([k \in DOMAIN s |-> IF s[k] = "\"" THEN <<"\"", "\"">> ELSE <<s[k]>>]) \o <<"\"">>
  ELSE s

\* one cell of the loaded table as to_csv writes it
FormatCell(c, v) ==
  CASE c = "Date" -> FormatDate(v)
    [] c \in NumericColumns -> FormatInt(v)
    [] OTHER -> QuoteField(v)

\* one line of CSV text from its cells
CsvLine(cells) == Join(cells, <<",">>) \o <<"\n">>

\* the header line to_csv writes for the loaded table
CsvHeader == CsvLine([k \in DOMAIN Columns |-> QuoteField(ColumnText[Columns[k]])])

\* to_csv without the header line
to_csv_no_header(frame) ==
  Concat([i \in DOMAIN frame |-> CsvLine([k \in DOMAIN Columns |-> FormatCell(Columns[k], frame[i][Columns[k]])])])

\* DataFrame.to_csv(index=False): a header line and one line per row, each
\* ended by a line break
to_csv(frame) ==
  CsvHeader
  \o Concat([i \in DOMAIN frame |-> CsvLine([k \in DOMAIN Columns |-> FormatCell(Columns[k], frame[i][Columns[k]])])])

\* str.encode('utf-8') of ASCII text: one byte per character
encode_utf8(text) == [i \in DOMAIN text |-> Ord[text[i]]]

\* bytes.decode('utf-8') of ASCII bytes
decode_utf8(bytes) == [i \in DOMAIN bytes |-> Chr[bytes[i]]]

(***************************************************************************)
(* The sales file on disk.                                                 *)
(***************************************************************************)
HeaderLine == Join([k \in DOMAIN FileColumns |-> ColumnText[FileColumns[k]]], <<",">>)

\* the text of a file from its lines
FileText(lines) == Concat([k \in DOMAIN lines |-> lines[k] \o <<"\n">>])

\* a two-row sales file
ExampleFile ==
  FileText(<<HeaderLine,
    <<"2", "0", "2", "4", "-", "0", "1", "-", "0", "1", ",", "U", "S", ",", "A", ",", "X", ",",
      "W", "i", "d", "g", "e", "t", ",", "2", ",", "2", "0">>,
    <<"2", "0", "2", "4", "-", "0", "2", "-", "0", "1", ",", "E", "U", ",", "B", ",", "Y", ",",
      "G", "a", "d", "g", "e", "t", ",", "1", ",", "1", "5">> >>)

\* the letters of the generated product names
ProductLetters == <<"A", "b", ".", "c">>

\* line i of a generated sales file of NumRows rows: three days in two months,
\* one region, one category, two customers (the second one needs quoting),
\* NumProducts products with two-letter names, sales with ties
GeneratedLine(i) ==
  LET p == (i - 1) % NumProducts
      date == CASE i % 3 = 1 -> <<"2", "0", "2", "4", "-", "0", "1", "-", "0", "1">>
                [] i % 3 = 2 -> <<"2", "0", "2", "4", "-", "0", "1", "-", "1", "5">>
                [] OTHER -> <<"2", "0", "2", "4", "-", "0", "2", "-", "0", "1">>
      customer == IF i % 2 = 1 THEN <<"X">> ELSE <<"\"", "Y", ",", "\"", "\"", "y", "\"">>
      product == <<ProductLetters[((p \div Len(ProductLetters)) % Len(ProductLetters)) + 1],
                   ProductLetters[(p % Len(ProductLetters)) + 1]>>
  IN Join(<<date, <<"E", "U">>, <<"A">>, customer, product,
            FormatInt((i % 4) + 1), FormatInt(10 * ((i % 5) + 1))>>, <<",">>)

ManyProductsFile == FileText(<<HeaderLine>> \o [i \in 1..NumRows |-> GeneratedLine(i)])

Files == {ExampleFile, ManyProductsFile}

(***************************************************************************)
(* load_data.                                                              *)
(***************************************************************************)
countries ==
  << <<"U", "n", "i", "t", "e", "d", " ", "S", "t", "a", "t", "e", "s">>,
     <<"I", "n", "d", "i", "a">>,
     <<"G", "e", "r", "m", "a", "n", "y">>,
     <<"B", "r", "a", "z", "i", "l">>,
     <<"A", "u", "s", "t", "r", "a", "l", "i", "a">>,
     <<"C", "a", "n", "a", "d", "a">>,
     <<"U", "n", "i", "t", "e", "d", " ", "K", "i", "n", "g", "d", "o", "m">> >>

\* the module-level generator is seeded from the operating system: its seed
\* is any of Seeds
Seeds == 0..MaxSeed

\* the i-th number the generator seeded with seed yields
RandomStream(seed, i) == seed * (i + 1) + i

\* random.choice(options) on the i-th draw
random_choice(options, seed, i) == options[(RandomStream(seed, i) % Len(options)) + 1]

\* the body of load_data: read the file, parse Date, add a random Country
load_data(text, seed) ==
  LET raw == read_csv(text)
  IN [i \in DOMAIN raw |->
       [c \in {Columns[k] : k \in DOMAIN Columns} |->
          CASE c = "Date" -> to_datetime(raw[i]["Date"])
            [] c = "Country" -> random_choice(countries, seed, i)
            [] OTHER -> raw[i][c]]]

\* load_data tabulated over the files and seeds of the model
LoadedTable == [text \in Files |-> [seed \in Seeds |-> load_data(text, seed)]]

(***************************************************************************)
(* Series and DataFrame operations.                                        *)
(***************************************************************************)
\* a column of a frame as a Series
Column(frame, col) == [i \in DOMAIN frame |-> frame[i][col]]

\* Series.unique(): the values of a Series in order of first appearance
unique(series) ==
  LET first == Ascending({i \in DOMAIN series : \A j \in 1..(i - 1) : series[j] # series[i]})
  IN [k \in DOMAIN first |-> series[first[k]]]

\* the set of values of a sequence
Range(s) == {s[k] : k \in DOMAIN s}

\* Series.min() and Series.max() of the Date column
MinDate(frame) == CHOOSE d \in Range(Column(frame, "Date")) : \A e \in Range(Column(frame, "Date")) : d <= e

MaxDate(frame) == CHOOSE d \in Range(Column(frame, "Date")) : \A e \in Range(Column(frame, "Date")) : d >= e

\* between with the right end excluded
between_right_open(v, left, right) == left <= v /\ v < right

\* Series.between(left, right), inclusive="both"
between(v, left, right) == left <= v /\ v <= right

\* isin that takes no values for no restriction
isin_or_all(v, values) == values = {} \/ v \in values

\* Series.isin(values)
isin(v, values) == v \in values

\* re.search(pat, s, re.IGNORECASE) at position p, for a pattern of literal
\* characters and ".", which stands for any character but a line break
MatchesAt(s, pat, p) ==
  \A k \in DOMAIN pat :
    IF pat[k] = "." THEN s[p + k - 1] # "\n" ELSE Lower(pat[k]) = Lower(s[p + k - 1])

\* Series.str.contains(pat, case=False): regex=True is the default, so pat is
\* a regular expression searched for in s
str_contains(s, pat) == \E p \in 1..(Len(s) - Len(pat) + 1) : MatchesAt(s, pat, p)

\* Series.sum() of a numeric column: 0 for no rows
RECURSIVE SumCol(_, _)
SumCol(frame, col) == IF frame = <<>> THEN 0 ELSE frame[1][col] + SumCol(Tail(frame), col)

RECURSIVE Gcd(_, _)
Gcd(a, b) == IF b = 0 THEN a ELSE Gcd(b, a % b)

\* the mean taken over the distinct values only
mean_of_distinct(frame, col) ==
  IF frame = <<>> THEN NaN
  ELSE LET values == {frame[i][col] : i \in DOMAIN frame}
           s == SumCol(frame, col)
           n == Cardinality(values)
           g == Gcd(s, n)
       IN [num |-> s \div g, den |-> n \div g]

\* Series.mean() of a numeric column: NaN for no rows, else the sum over the
\* count, kept as an exact fraction in lowest terms
mean(frame, col) ==
  IF frame = <<>> THEN NaN
  ELSE LET s == SumCol(frame, col)
           n == Len(frame)
           g == Gcd(s, n)
       IN [num |-> s \div g, den |-> n \div g]

\* the rows of a frame at the given positions, in their order
Take(frame, positions) ==
  LET at == Ascending(positions)
  IN [k \in DOMAIN at |-> frame[at[k]]]

\* the order of group keys: text by code point, dates and periods by time
KeyLess(a, b, dtype) == IF dtype = "object" THEN StrLess(a, b) ELSE a < b

\* the distinct keys in ascending order
SortedKeys(keys, dtype) ==
  LET values == Range(keys)
  IN [k \in 1..Cardinality(values) |->
       CHOOSE v \in values : Cardinality({u \in values : KeyLess(u, v, dtype)}) = k - 1]

\* groupby that keeps the first row of each group in place of the sum
groupby_first(frame, keys, dtype) ==
  LET sorted == SortedKeys(keys, dtype)
  IN [k \in DOMAIN sorted |->
       [key |-> sorted[k],
        TotalSales |-> frame[CHOOSE i \in DOMAIN frame : keys[i] = sorted[k] /\ \A j \in 1..(i - 1) : keys[j] # sorted[k]]["TotalSales"]]]

\* frame.groupby(keys)["TotalSales"].sum().reset_index(): one entry per key
\* value, in ascending key order (sort=True), with the sum of its rows; keys
\* is the Series grouped by, aligned with the rows of frame
groupby_sum(frame, keys, dtype) ==
  LET sorted == SortedKeys(keys, dtype)
  IN [k \in DOMAIN sorted |->
       [key |-> sorted[k],
        TotalSales |-> SumCol(Take(frame, {i \in DOMAIN frame : keys[i] = sorted[k]}), "TotalSales")]]

\* the n of the top-N charts
TopN == 10

\* head(n): the first n entries, unsorted
first_n(groups, n) == SubSeq(groups, 1, IF Len(groups) < n THEN Len(groups) ELSE n)

\* Series.nlargest(n), keep="first": the n largest entries in descending
\* order, equal ones in their original order
nlargest(groups, n) ==
  LET Place(i) == Cardinality({j \in DOMAIN groups :
                     \/ groups[j].TotalSales > groups[i].TotalSales
                     \/ groups[j].TotalSales = groups[i].TotalSales /\ j < i}) + 1
  IN [p \in 1..(IF Len(groups) < n THEN Len(groups) ELSE n) |->
       groups[CHOOSE i \in DOMAIN groups : Place(i) = p]]

(***************************************************************************)
(* Metric formatting.                                                      *)
(***************************************************************************)
\* format(n, ","): the digits of n >= 0 in groups of three
FormatThousands(n) ==
  LET d == FormatInt(n)
  IN Concat([i \in DOMAIN d |-> IF i > 1 /\ (Len(d) - i + 1) % 3 = 0 THEN <<",", d[i]>> ELSE <<d[i]>>])

\* format(v, ",.0f") of an integer sum
FormatFixed0(v) == FormatThousands(v)

\* format(v, ",.2f") of a mean: "nan" for NaN, else two decimals, a tie
\* rounded to the even neighbour (the error of the binary fraction that
\* stands for the mean is not modelled)
FormatFixed2(v) ==
  IF v = NaN THEN <<"n", "a", "n">>
  ELSE LET q == (100 * v.num) \div v.den
           r == (100 * v.num) % v.den
           cents == IF 2 * r > v.den \/ (2 * r = v.den /\ q % 2 = 1) THEN q + 1 ELSE q
       IN FormatThousands(cents \div 100) \o <<".">> \o ZeroPad(cents % 100, 2)

(***************************************************************************)
(* State.                                                                  *)
(***************************************************************************)
VARIABLES
  file,             \* the text of sales_dashboard_dataset.csv
  cache,            \* the st.cache_data entries of load_data(): none or one table
  loads,            \* runs of the body of load_data since the cache was last cleared
  date_range,       \* value of the date-range input: one or two dates
  region_filter,    \* value of the region multiselect
  category_filter,  \* value of the category multiselect
  customer_filter,  \* value of the customer multiselect
  theme,            \* value of the theme radio
  search_term,      \* value of the search box
  df,               \* the table the last script run worked on
  df_selected,      \* df_filtered as assigned from the four column filters
  df_filtered,      \* df_filtered after the search step
  total_sales,
  total_quantity,
  avg_order_value,
  metrics,          \* the three st.metric values shown, in order
  charts,           \* the figures passed to st.plotly_chart, in order
  tables,           \* the two summary tables shown with st.dataframe
  editor,           \* the table shown in st.data_editor
  csv_download      \* the bytes offered by the download button

widgets == <<date_range, region_filter, category_filter, customer_filter, theme, search_term>>

outputs == <<df, df_selected, df_filtered, total_sales, total_quantity, avg_order_value,
             metrics, charts, tables, editor, csv_download>>

vars == <<file, cache, loads, widgets, outputs>>

\* the state before the first script run: nothing cached, no widget created
\* (the date input holds no date), nothing rendered
Init ==
  /\ file \in Files
  /\ cache = <<>>
  /\ loads = 0
  /\ date_range = <<>>
  /\ region_filter = {}
  /\ category_filter = {}
  /\ customer_filter = {}
  /\ theme = ""
  /\ search_term = <<>>
  /\ df = <<>>
  /\ df_selected = <<>>
  /\ df_filtered = <<>>
  /\ total_sales = 0
  /\ total_quantity = 0
  /\ avg_order_value = NaN
  /\ metrics = <<>>
  /\ charts = <<>>
  /\ tables = <<>>
  /\ editor = <<>>
  /\ csv_download = <<>>

\* the script has run in this session
Started == date_range # <<>>

(***************************************************************************)
(* The script.                                                             *)
(***************************************************************************)
\* convert_df
convert_df(frame) == encode_utf8(to_csv(frame))

\* the rows that pass the date and the three membership filters
ApplyFilters(table, dates, regions, categories, customers) ==
  LET start_date == dates[1]
      end_date == dates[Len(dates)]
  IN SelectSeq(table, LAMBDA r :
       /\ between(r["Date"], start_date, end_date)
       /\ isin(r["Region"], regions)
       /\ isin(r["Category"], categories)
       /\ isin(r["Customer"], customers))

\* the global search: a non-empty term keeps the rows whose Product or
\* Customer contains it
ApplySearch(view, term) ==
  IF term # <<>>
  THEN SelectSeq(view, LAMBDA r : str_contains(r["Product"], term) \/ str_contains(r["Customer"], term))
  ELSE view

\* the charts section without the emptiness gate
ChartsUngated(view, th) ==
  LET template == IF th = "Dark" THEN "plotly_dark" ELSE "plotly_white"
      titles == <<"Sales Over Time", "Monthly Sales Trend", "Sales by Region", "Sales by Category",
                  "Top 10 Products", "Top 10 Customers", "Sales by Country">>
  IN [k \in DOMAIN titles |->
       [figure |-> "bar", title |-> titles[k],
        data |-> groupby_sum(view, Column(view, "Region"), "object"), template |-> template]]

\* the charts section: nothing for an empty view, else the seven figures
Charts(view, th) ==
  LET template == IF th = "Dark" THEN "plotly_dark" ELSE "plotly_white"
      by_month == groupby_sum(view, [i \in DOMAIN view |-> to_period_M(view[i]["Date"])], "period")
      monthly == [k \in DOMAIN by_month |-> [by_month[k] EXCEPT !.key = FormatPeriod(@)]]
      top_products == nlargest(groupby_sum(view, Column(view, "Product"), "object"), TopN)
      top_customers == nlargest(groupby_sum(view, Column(view, "Customer"), "object"), TopN)
  IN IF view # <<>>
     THEN << [figure |-> "line", title |-> "Sales Over Time",
              data |-> groupby_sum(view, Column(view, "Date"), "datetime64"), template |-> template],
             [figure |-> "bar", title |-> "Monthly Sales Trend", data |-> monthly, template |-> template],
             [figure |-> "bar", title |-> "Sales by Region",
              data |-> groupby_sum(view, Column(view, "Region"), "object"), template |-> template],
             [figure |-> "pie", title |-> "Sales by Category",
              data |-> groupby_sum(view, Column(view, "Category"), "object"), template |-> template],
             [figure |-> "bar", title |-> "Top 10 Products", data |-> top_products, template |-> template],
             [figure |-> "bar", title |-> "Top 10 Customers", data |-> top_customers, template |-> template],
             [figure |-> "choropleth", title |-> "Sales by Country",
              data |-> groupby_sum(view, Column(view, "Country"), "object"), template |-> template] >>
     ELSE <<>>

\* the widget values of a first run: the whole date span, every region,
\* category and customer, the first theme, no search term
Defaults(table) ==
  [date_range |-> <<MinDate(table), MaxDate(table)>>,
   region_filter |-> Range(unique(Column(table, "Region"))),
   category_filter |-> Range(unique(Column(table, "Category"))),
   customer_filter |-> Range(unique(Column(table, "Customer"))),
   theme |-> "Light",
   search_term |-> <<>>]

\* the widget values the session holds
Session ==
  [date_range |-> date_range,
   region_filter |-> region_filter,
   category_filter |-> category_filter,
   customer_filter |-> customer_filter,
   theme |-> theme,
   search_term |-> search_term]

\* load_data without the cache decorator: every call runs the body
UncachedLoadData == {LoadedTable[file][seed] : seed \in Seeds}

\* what a call of load_data() may return: the cached table, or on a miss the
\* table its body builds with any seed
CachedLoadData == IF cache = <<>> THEN {LoadedTable[file][seed] : seed \in Seeds} ELSE {cache[1]}

\* one run of the script.  With created, the widgets exist in the session and
\* return its values; without, they are created and return their defaults.
\* (Each intermediate value of the script is bound once, as the member of a
\* one-element set.)
Script(created, session) ==
  \E table \in CachedLoadData :
  \E w \in {IF created THEN session ELSE Defaults(table)} :
  \E selected \in {ApplyFilters(table, w.date_range, w.region_filter, w.category_filter, w.customer_filter)} :
  \E view \in {ApplySearch(selected, w.search_term)} :
  \E sales \in {SumCol(view, "TotalSales")} :
  \E quantity \in {SumCol(view, "Quantity")} :
  \E average \in {mean(view, "TotalSales")} :
    /\ cache' = <<table>>
    /\ loads' = IF cache = <<>> THEN loads + 1 ELSE loads
    /\ df' = table
    /\ date_range' = w.date_range
    /\ region_filter' = w.region_filter
    /\ category_filter' = w.category_filter
    /\ customer_filter' = w.customer_filter
    /\ theme' = w.theme
    /\ search_term' = w.search_term
    /\ df_selected' = selected
    /\ df_filtered' = view
    /\ total_sales' = sales
    /\ total_quantity' = quantity
    /\ avg_order_value' = average
    /\ metrics' = << <<"$">> \o FormatFixed0(sales),
                     FormatThousands(quantity),
                     <<"$">> \o FormatFixed2(average) >>
    /\ charts' = Charts(view, w.theme)
    /\ tables' = << groupby_sum(view, Column(view, "Region"), "object"),
                    groupby_sum(view, Column(view, "Category"), "object") >>
    /\ editor' = view
    /\ csv_download' = convert_df(view)
    /\ UNCHANGED file

(***************************************************************************)
(* Interactions.                                                           *)
(***************************************************************************)
\* the characters typed into the search box
SearchAlphabet == {"a", "."}

SearchTerms == SeqsUpTo(SearchAlphabet, MaxTermLen)

\* the dates picked in the date input, among the days of the table: a range
\* being picked holds one date, a picked range its first and its last day
\* (the picker takes a second click on an earlier day for a new first day)
DateRanges(table) ==
  LET days == Range(Column(table, "Date"))
  IN {<<d>> : d \in days} \cup {r \in days \X days : r[1] < r[2]}

Toggle(selection, option) ==
  IF option \in selection THEN selection \ {option} ELSE selection \cup {option}

\* a browser opens the app: the first run, every widget at its default
OpenSession ==
  /\ ~Started
  /\ Script(FALSE, Session)

\* the user reruns the script without touching a widget
Rerun ==
  /\ Started
  /\ Script(TRUE, Session)

ChangeDateRange ==
  /\ Started
  /\ \E r \in DateRanges(df) \ {date_range} :
       Script(TRUE, [Session EXCEPT !.date_range = r])

ToggleRegion ==
  /\ Started
  /\ \E v \in Range(unique(Column(df, "Region"))) :
       Script(TRUE, [Session EXCEPT !.region_filter = Toggle(@, v)])

ToggleCategory ==
  /\ Started
  /\ \E v \in Range(unique(Column(df, "Category"))) :
       Script(TRUE, [Session EXCEPT !.category_filter = Toggle(@, v)])

ToggleCustomer ==
  /\ Started
  /\ \E v \in Range(unique(Column(df, "Customer"))) :
       Script(TRUE, [Session EXCEPT !.customer_filter = Toggle(@, v)])

SelectTheme ==
  /\ Started
  /\ \E v \in {"Light", "Dark"} \ {theme} :
       Script(TRUE, [Session EXCEPT !.theme = v])

EnterSearch ==
  /\ Started
  /\ \E v \in SearchTerms \ {search_term} :
       Script(TRUE, [Session EXCEPT !.search_term = v])

\* the host's "Clear cache" command drops the cached table; nothing reruns
ClearCache ==
  /\ cache # <<>>
  /\ cache' = <<>>
  /\ loads' = 0
  /\ UNCHANGED <<file, widgets, outputs>>

Next ==
  \/ OpenSession
  \/ Rerun
  \/ ChangeDateRange
  \/ ToggleRegion
  \/ ToggleCategory
  \/ ToggleCustomer
  \/ SelectTheme
  \/ EnterSearch
  \/ ClearCache

Spec == Init /\ [][Next]_vars

(***************************************************************************)
(* Properties.                                                             *)
(***************************************************************************)
\* the sum of a column over the rows of a frame
Total(frame, col) ==
  LET Upto[i \in 0..Len(frame)] == IF i = 0 THEN 0 ELSE Upto[i - 1] + frame[i][col]
  IN Upto[Len(frame)]

\* how many rows of a frame equal r
Occurrences(frame, r) == Cardinality({i \in DOMAIN frame : frame[i] = r})

\* the row passes the date range and the three selections of the session
Selected(r) ==
  /\ date_range[1] <= r["Date"]
  /\ r["Date"] <= date_range[Len(date_range)]
  /\ r["Region"] \in region_filter
  /\ r["Category"] \in category_filter
  /\ r["Customer"] \in customer_filter

\* C1: in every render cycle the view before the search step holds exactly
\* the loaded rows whose Date is within [first, last] of the date input and
\* whose Region, Category and Customer are selected: no other row, and none
\* of those missing
C1_SelectedRowsExact ==
  Started =>
    /\ \A i \in DOMAIN df_selected : Selected(df_selected[i])
    /\ \A i \in DOMAIN df_selected : Occurrences(df_selected, df_selected[i]) = Occurrences(df, df_selected[i])
    /\ \A i \in DOMAIN df : Selected(df[i]) => Occurrences(df_selected, df[i]) = Occurrences(df, df[i])

\* a range of two different days was picked; a row dated on its last day is in
\* the view and a row dated outside the range is not
C1_Witness ==
  /\ Started
  /\ Len(date_range) = 2
  /\ date_range[1] < date_range[2]
  /\ \E i \in DOMAIN df_selected : df_selected[i]["Date"] = date_range[2]
  /\ \E i \in DOMAIN df : df[i]["Date"] > date_range[2] /\ Occurrences(df_selected, df[i]) = 0

\* s holds t as a literal substring, letter case ignored
ContainsLiteral(s, t) ==
  \E p \in 1..(Len(s) - Len(t) + 1) : \A k \in DOMAIN t : Lower(s[p + k - 1]) = Lower(t[k])

\* the row's Product or Customer holds the search term literally
Found(r) == ContainsLiteral(r["Product"], search_term) \/ ContainsLiteral(r["Customer"], search_term)

\* C2: an empty search term leaves the view of the four filters unchanged; a
\* non-empty one keeps exactly its rows whose Product or Customer holds the
\* term as a literal substring, case ignored, whatever characters it has
C2_SearchIsLiteralSubstring ==
  Started =>
    IF search_term = <<>>
    THEN df_filtered = df_selected
    ELSE /\ \A i \in DOMAIN df_filtered : Found(df_filtered[i])
         /\ \A i \in DOMAIN df_filtered : Occurrences(df_filtered, df_filtered[i]) = Occurrences(df_selected, df_filtered[i])
         /\ \A i \in DOMAIN df_selected : Found(df_selected[i]) => Occurrences(df_filtered, df_selected[i]) = Occurrences(df_selected, df_selected[i])

\* the number of distinct values of a column
Distinct(frame, col) == Cardinality({frame[i][col] : i \in DOMAIN frame})

ViewTotal == Total(df_filtered, "TotalSales")

GroupedTotal(groups) == Total(groups, "TotalSales")

\* the positions of the charts by day, month, region, category and country
UntruncatedCharts == {1, 2, 3, 4, 7}

\* C3 as stated: for every grouping dimension, the products and customers
\* included, the grouped values the dashboard computes add up to the sum of
\* TotalSales over the Filtered View
C3_AllGroupedSumsEqualTotal ==
  Started =>
    /\ \A k \in DOMAIN tables : GroupedTotal(tables[k]) = ViewTotal
    /\ \A k \in DOMAIN charts : GroupedTotal(charts[k].data) = ViewTotal

\* C3 amended: the grouped values by day, month, region, category and country
\* (and the two summary tables) add up to the sum of TotalSales over the
\* Filtered View; those by product and by customer do so when the view has at
\* most ten distinct products, respectively customers
C3_GroupedSumsEqualTotalUnlessTruncated ==
  Started =>
    /\ \A k \in DOMAIN tables : GroupedTotal(tables[k]) = ViewTotal
    /\ \A k \in DOMAIN charts :
         (\/ k \in UntruncatedCharts
          \/ k = 5 /\ Distinct(df_filtered, "Product") <= TopN
          \/ k = 6 /\ Distinct(df_filtered, "Customer") <= TopN)
         => GroupedTotal(charts[k].data) = ViewTotal

\* charts are shown for a view in which some product has several rows, and
\* some day has several rows
C3_Witness ==
  /\ Started
  /\ charts # <<>>
  /\ Distinct(df_filtered, "Product") <= TopN
  /\ Distinct(df_filtered, "Product") < Len(df_filtered)
  /\ Distinct(df_filtered, "Date") < Len(df_filtered)
  /\ Distinct(df_filtered, "Date") > 1

\* the text holds "nan"
ShowsNaN(text) == \E p \in 1..(Len(text) - 2) : SubSeq(text, p, p + 2) = <<"n", "a", "n">>

\* C4: with an empty Filtered View total sales and total quantity show 0, and
\* the average order value shown is not a formatted NaN
C4_EmptyViewShowsZeroOrBlank ==
  Started /\ df_filtered = <<>> =>
    /\ metrics[1] = <<"$", "0">>
    /\ metrics[2] = <<"0">>
    /\ ~ShowsNaN(metrics[3])

\* C5: total sales is the sum of TotalSales over the Filtered View (0 for no
\* rows), total quantity the sum of Quantity, the average order value times
\* the number of rows is total sales for a non-empty view; the single row
\* {Quantity 2, TotalSales 20} gives 20, 2 and 20
C5_KpiValues ==
  Started =>
    /\ total_sales = Total(df_filtered, "TotalSales")
    /\ total_quantity = Total(df_filtered, "Quantity")
    /\ df_filtered = <<>> => total_sales = 0
    /\ df_filtered # <<>> =>
         /\ avg_order_value # NaN
         /\ avg_order_value.den > 0
         /\ avg_order_value.num * Len(df_filtered) = total_sales * avg_order_value.den
    /\ Len(df_filtered) = 1 /\ df_filtered[1]["Quantity"] = 2 /\ df_filtered[1]["TotalSales"] = 20 =>
         /\ total_sales = 20
         /\ total_quantity = 2
         /\ avg_order_value = [num |-> 20, den |-> 1]

\* the Filtered View is the single row {Quantity 2, TotalSales 20}
C5_Witness ==
  /\ Started
  /\ Len(df_filtered) = 1
  /\ df_filtered[1]["Quantity"] = 2
  /\ df_filtered[1]["TotalSales"] = 20

\* C6: with no region, no category or no customer selected the Filtered View
\* is empty, whatever the date range, the other selections and the search
\* term are
C6_EmptySelectionEmptyView ==
  Started /\ (region_filter = {} \/ category_filter = {} \/ customer_filter = {}) =>
    df_selected = <<>> /\ df_filtered = <<>>

\* no region is selected while rows pass every other filter
C6_Witness ==
  /\ Started
  /\ region_filter = {}
  /\ \E i \in DOMAIN df :
       /\ date_range[1] <= df[i]["Date"]
       /\ df[i]["Date"] <= date_range[Len(date_range)]
       /\ df[i]["Category"] \in category_filter
       /\ df[i]["Customer"] \in customer_filter

\* C7: between two cache clears the body of load_data runs at most once,
\* and a step that is not a cache clear and finds the table cached runs the
\* script on that table and leaves it cached unchanged (so every row keeps
\* its Country and its other values)
C7_LoadedOnceAndReused ==
  [][/\ loads' <= 1
     /\ cache # <<>> /\ cache' # <<>> =>
          /\ cache' = cache
          /\ loads' = loads
          /\ df' = cache[1]]_vars

\* several interactions after the first run, the file read once
C7_Witness ==
  /\ Started
  /\ loads = 1
  /\ cache # <<>>
  /\ df = cache[1]
  /\ theme = "Dark"
  /\ search_term # <<>>
  /\ region_filter = {}

\* C8: the exported CSV, parsed again, has as many rows as the Filtered View
\* of the same script run and the same sum of TotalSales
C8_ExportRoundTrip ==
  Started =>
    LET parsed == read_csv(decode_utf8(csv_download))
    IN /\ Len(parsed) = Len(df_filtered)
       /\ Total(parsed, "TotalSales") = Total(df_filtered, "TotalSales")

\* the search narrowed the view, and an exported row has a customer that is
\* written in quotes
C8_Witness ==
  /\ Started
  /\ search_term # <<>>
  /\ df_filtered # <<>>
  /\ Len(df_filtered) < Len(df_selected)
  /\ \E i \in DOMAIN df_filtered : \E k \in DOMAIN df_filtered[i]["Customer"] : df_filtered[i]["Customer"][k] = ","

\* C9: the seven charts are rendered exactly when the Filtered View is not
\* empty: none for an empty view, all seven otherwise
C9_ChartsIffViewNonEmpty ==
  Started =>
    IF df_filtered = <<>>
    THEN charts = <<>>
    ELSE /\ Len(charts) = 7
         /\ Cardinality({charts[k].title : k \in DOMAIN charts}) = 7

\* rows pass the four filters but none passes the search: no chart
C9_Witness ==
  /\ Started
  /\ df_selected # <<>>
  /\ df_filtered = <<>>
  /\ charts = <<>>

\* the sum of TotalSales over the rows of the Filtered View with value v in col
GroupTotal(col, v) == Total(SelectSeq(df_filtered, LAMBDA r : r[col] = v), "TotalSales")

\* top is the top-N view of the Filtered View grouped by col
IsTopView(top, col) ==
  LET values == {df_filtered[i][col] : i \in DOMAIN df_filtered}
      kept == {top[j].key : j \in DOMAIN top}
  IN /\ Len(top) = (IF Cardinality(values) < 10 THEN Cardinality(values) ELSE 10)
     /\ Cardinality(kept) = Len(top)
     /\ kept \subseteq values
     /\ \A j \in DOMAIN top : top[j].TotalSales = GroupTotal(col, top[j].key)
     /\ \A j \in 1..(Len(top) - 1) : top[j].TotalSales >= top[j + 1].TotalSales
     /\ \A v \in values \ kept : \A j \in DOMAIN top : GroupTotal(col, v) <= top[j].TotalSales

\* C10: the top-products and top-customers views hold min(10, distinct
\* products / customers of the Filtered View) entries, each the sum of
\* TotalSales of its group, in descending order of that sum, and no group
\* left out has a larger sum than the smallest one kept
C10_TopViews ==
  Started /\ charts # <<>> =>
    /\ IsTopView(charts[5].data, "Product")
    /\ IsTopView(charts[6].data, "Customer")

\* the view has more than ten products, two of the kept ones tie
C10_Witness ==
  /\ Started
  /\ charts # <<>>
  /\ Distinct(df_filtered, "Product") > 10
  /\ \E j \in 1..(Len(charts[5].data) - 1) : charts[5].data[j].TotalSales = charts[5].data[j + 1].TotalSales

====
